---- MODULE Spec2Model ----
(***************************************************************************)
(* A model of wasupdate: the script policy engine (lib/src/rhai.rs), the   *)
(* artifact installer (lib/src/install.rs) and the update orchestrator     *)
(* (cli/src/main.rs).                                                      *)
(*                                                                         *)
(* Strings are sequences of one-character strings, so that the string      *)
(* operations of the code (extension, strip_suffix, rsplit, parsing) are   *)
(* computed and not assumed.  An Option<T> is a sequence of length 0       *)
(* (None) or 1 (Some).  A filesystem is a function from absolute paths     *)
(* (sequences of names) to nodes.                                          *)
(***************************************************************************)
EXTENDS Integers, Sequences, FiniteSets, TLC

VARIABLES
    fs,         \* the filesystem: absolute path -> node
    cwd,        \* the working directory of the process
    net,        \* the HTTP requests performed so far: [url, resp |-> the answer]
    op,         \* the library call last performed, with its inputs and result
    nops,       \* number of library calls performed
    script,     \* the script handed to WasaupEngine::new
    loaded,     \* the result of WasaupEngine::new
    pc,         \* position of main
    args,       \* parsed command line of main
    current_version, \* main's local: Option<Version>
    latest_version,  \* main's local: Option<Version>
    install_path,    \* main's local: Option<String>
    will_update,     \* main's local: Option<bool>, set by the comparison
    calls,      \* the operations main has invoked, in order
    exit_code   \* Option<Int>: the exit status of the process once it ended

vars == <<fs, cwd, net, op, nops, script, loaded, pc, args, current_version,
          latest_version, install_path, will_update, calls, exit_code>>

----------------------------------------------------------------------------
(* Options and strings *)

None == <<>>
Some(x) == <<x>>
IsSome(o) == Len(o) = 1
Unwrap(o) == o[1]

EndsWith(s, suf) ==
    /\ Len(suf) <= Len(s)
    /\ SubSeq(s, Len(s) - Len(suf) + 1, Len(s)) = suf

StartsWith(s, pre) ==
    /\ Len(pre) <= Len(s)
    /\ SubSeq(s, 1, Len(pre)) = pre

\* str::strip_suffix
StripSuffix(s, suf) ==
    IF EndsWith(s, suf) THEN Some(SubSeq(s, 1, Len(s) - Len(suf))) ELSE None

\* index of the last occurrence of character c in s, 0 when there is none
LastIndexOf(s, c) ==
    LET hits == {i \in 1..Len(s) : s[i] = c}
    IN IF hits = {} THEN 0 ELSE CHOOSE i \in hits : \A j \in hits : j <= i

\* index of the first occurrence of character c in s, 0 when there is none
FirstIndexOf(s, c) ==
    LET hits == {i \in 1..Len(s) : s[i] = c}
    IN IF hits = {} THEN 0 ELSE CHOOSE i \in hits : \A j \in hits : i <= j

\* str::split on one character, keeping empty pieces
RECURSIVE SplitOn(_, _)
SplitOn(s, c) ==
    LET i == FirstIndexOf(s, c)
    IN IF i = 0 THEN <<s>>
       ELSE <<SubSeq(s, 1, i - 1)>> \o SplitOn(SubSeq(s, i + 1, Len(s)), c)

SeqToSet(s) == {s[i] : i \in 1..Len(s)}

----------------------------------------------------------------------------
(* Paths: std::path::PathBuf *)

\* PathBuf::from(string): components are the non-empty, non-"." pieces between
\* separators; a leading separator makes the path absolute.
PathFrom(s) ==
    LET pieces == SplitOn(s, "/")
        keep == SelectSeq(pieces, LAMBDA p : p # <<>> /\ p # <<".">>)
    IN [abs |-> Len(s) > 0 /\ s[1] = "/", comps |-> keep]

\* Path::parent
Parent(p) ==
    IF p.comps = <<>> THEN None
    ELSE Some([abs |-> p.abs, comps |-> SubSeq(p.comps, 1, Len(p.comps) - 1)])

\* Path::file_name
FileName(p) ==
    IF p.comps = <<>> \/ p.comps[Len(p.comps)] = <<".", ".">> THEN None
    ELSE Some(p.comps[Len(p.comps)])

\* Path::join
Join(p, q) ==
    IF q.abs THEN q ELSE [abs |-> p.abs, comps |-> p.comps \o q.comps]

JoinName(p, name) == [abs |-> p.abs, comps |-> Append(p.comps, name)]

\* std's rsplit_file_at_dot: (before, after) of the last dot of a file name
RsplitFileAtDot(name) ==
    LET i == LastIndexOf(name, ".")
    IN IF name = <<".", ".">> THEN [before |-> Some(name), after |-> None]
       ELSE IF i = 0 THEN [before |-> None, after |-> Some(name)]
       ELSE IF i = 1 THEN [before |-> Some(name), after |-> None]
       ELSE [before |-> Some(SubSeq(name, 1, i - 1)),
             after |-> Some(SubSeq(name, i + 1, Len(name)))]

\* Path::extension: before.and(after)
Extension(p) ==
    IF FileName(p) = None THEN None
    ELSE LET r == RsplitFileAtDot(Unwrap(FileName(p)))
         IN IF IsSome(r.before) THEN r.after ELSE None

\* Path::file_stem: before.or(after)
FileStem(p) ==
    IF FileName(p) = None THEN None
    ELSE LET r == RsplitFileAtDot(Unwrap(FileName(p)))
         IN IF IsSome(r.before) THEN r.before ELSE r.after

\* the absolute, normalised location the operating system resolves a path to
RECURSIVE Normalise(_, _)
Normalise(acc, comps) ==
    IF comps = <<>> THEN acc
    ELSE IF Head(comps) = <<".", ".">>
         THEN Normalise(IF acc = <<>> THEN acc ELSE SubSeq(acc, 1, Len(acc) - 1),
                        Tail(comps))
    ELSE Normalise(Append(acc, Head(comps)), Tail(comps))

Resolve(wd, p) == Normalise(IF p.abs THEN <<>> ELSE wd, p.comps)

----------------------------------------------------------------------------
(* The filesystem, and std::fs on it.  Every operation returns               *)
(* [ok |-> BOOLEAN, fs |-> the filesystem afterwards].                       *)

NoData == [fmt |-> "none", entries |-> <<>>, bytes |-> ""]
DirNode == [kind |-> "dir", data |-> NoData]
FileNode(d) == [kind |-> "file", data |-> d]
Raw(b) == [fmt |-> "raw", entries |-> <<>>, bytes |-> b]

IsPrefix(p, q) == Len(p) <= Len(q) /\ SubSeq(q, 1, Len(p)) = p

FsExists(f, a) == a = <<>> \/ a \in DOMAIN f
FsIsDir(f, a) == a = <<>> \/ (a \in DOMAIN f /\ f[a].kind = "dir")
FsIsFile(f, a) == a \in DOMAIN f /\ f[a].kind = "file"
FsChildren(f, a) == {q[Len(q)] : q \in {r \in DOMAIN f : Len(r) = Len(a) + 1 /\ IsPrefix(a, r)}}
FsParent(a) == SubSeq(a, 1, Len(a) - 1)

Restrict(f, S) == [a \in S |-> f[a]]

\* fs::remove_file
RemoveFile(f, a) ==
    IF FsIsFile(f, a) THEN [ok |-> TRUE, fs |-> Restrict(f, DOMAIN f \ {a})]
    ELSE [ok |-> FALSE, fs |-> f]

\* fs::remove_dir_all
RemoveDirAll(f, a) ==
    IF a # <<>> /\ FsExists(f, a)
    THEN [ok |-> TRUE, fs |-> Restrict(f, {q \in DOMAIN f : ~IsPrefix(a, q)})]
    ELSE [ok |-> FALSE, fs |-> f]

\* fs::remove_file(p).or_else(|_| fs::remove_dir_all(p))
RemoveAny(f, a) ==
    LET r == RemoveFile(f, a) IN IF r.ok THEN r ELSE RemoveDirAll(f, a)

\* fs::rename on a POSIX target
Rename(f, src, dst) ==
    LET possible ==
            /\ src # <<>> /\ dst # <<>>
            /\ FsExists(f, src)
            /\ FsIsDir(f, FsParent(dst))
            /\ ~(IsPrefix(src, dst) /\ src # dst)
            /\ FsExists(f, dst) =>
                  \/ FsIsFile(f, src) /\ FsIsFile(f, dst)
                  \/ FsIsDir(f, src) /\ FsIsDir(f, dst) /\ FsChildren(f, dst) = {}
        moved == {q \in DOMAIN f : IsPrefix(src, q)}
        target(q) == dst \o SubSeq(q, Len(src) + 1, Len(q))
        kept == {q \in DOMAIN f : ~IsPrefix(src, q) /\ ~IsPrefix(dst, q)}
        new == kept \cup {target(q) : q \in moved}
    IN IF ~possible THEN [ok |-> FALSE, fs |-> f]
       ELSE IF src = dst THEN [ok |-> TRUE, fs |-> f]
       ELSE [ok |-> TRUE,
             fs |-> [a \in new |->
                       IF a \in kept THEN f[a]
                       ELSE f[src \o SubSeq(a, Len(dst) + 1, Len(a))]]]

\* fs::create_dir_all; the empty path is accepted and creates nothing
CreateDirAll(f, a) ==
    LET pre == {SubSeq(a, 1, i) : i \in 1..Len(a)}
    IN IF \E q \in pre : FsIsFile(f, q) THEN [ok |-> FALSE, fs |-> f]
       ELSE [ok |-> TRUE,
             fs |-> [q \in DOMAIN f \cup pre |->
                       IF q \in DOMAIN f THEN f[q] ELSE DirNode]]

\* File::create followed by writing d: creates or truncates a regular file
CreateFile(f, a, d) ==
    IF a # <<>> /\ FsIsDir(f, FsParent(a)) /\ ~FsIsDir(f, a)
    THEN [ok |-> TRUE,
          fs |-> [q \in DOMAIN f \cup {a} |-> IF q = a THEN FileNode(d) ELSE f[q]]]
    ELSE [ok |-> FALSE, fs |-> f]

\* Path::exists, Path::is_dir, Path::is_file of a possibly relative path; the
\* empty path names nothing
IsEmptyPath(p) == ~p.abs /\ p.comps = <<>>
PathExists(f, wd, p) == ~IsEmptyPath(p) /\ FsExists(f, Resolve(wd, p))
PathIsDir(f, wd, p) == ~IsEmptyPath(p) /\ FsIsDir(f, Resolve(wd, p))
PathIsFile(f, wd, p) == ~IsEmptyPath(p) /\ FsIsFile(f, Resolve(wd, p))

----------------------------------------------------------------------------
(* The environment of the installer *)

Str_zip == <<"z", "i", "p">>
Str_tar == <<"t", "a", "r">>
Str_gz == <<"g", "z">>
Str_tgz == <<"t", "g", "z">>
Str_dot_zip == <<".">> \o Str_zip
Str_dot_tar_gz == <<".">> \o Str_tar \o <<".">> \o Str_gz
DotDot == <<".", ".">>

\* env::current_exe().parent(): the directory of the running executable
ExeDir == [abs |-> TRUE, comps |-> << <<"e">> >>]
\* env::temp_dir()
TempDir == [abs |-> TRUE, comps |-> << <<"m">> >>]

\* The order in which fs::read_dir yields the entries of a directory is not
\* specified: rank is any sequence of names, and the entries come in the order
\* of rank (names rank does not list come last).
RECURSIVE SetToSeq(_)
SetToSeq(S) ==
    IF S = {} THEN <<>>
    ELSE LET x == CHOOSE y \in S : TRUE IN <<x>> \o SetToSeq(S \ {x})

ReadDir(f, a, rank) ==
    LET ch == FsChildren(f, a)
    IN SelectSeq(rank, LAMBDA n : n \in ch) \o SetToSeq(ch \ SeqToSet(rank))

Done(r, f) == [res |-> r, fs |-> f]

----------------------------------------------------------------------------
(* install.rs: the Layout Normaliser *)

\* the body of the loop of unroll_folder (lines 163-170) and the final
\* remove_dir_all (line 171), over the entries still to come
RECURSIVE UnrollLoop(_, _, _, _, _)
UnrollLoop(f, wd, path, parent_dir, entries) ==
    IF entries = <<>>
    THEN LET r == RemoveDirAll(f, Resolve(wd, path))
         IN Done(IF r.ok THEN "ok" ELSE "err", r.fs)
    ELSE LET dest_path == JoinName(parent_dir, Head(entries))
             src == Resolve(wd, JoinName(path, Head(entries)))
             r1 == IF PathExists(f, wd, dest_path)
                   THEN RemoveAny(f, Resolve(wd, dest_path))
                   ELSE [ok |-> TRUE, fs |-> f]
             r2 == Rename(r1.fs, src, Resolve(wd, dest_path))
         IN IF ~r1.ok THEN Done("err", r1.fs)
            ELSE IF ~r2.ok THEN Done("err", r2.fs)
            ELSE UnrollLoop(r2.fs, wd, path, parent_dir, Tail(entries))

\* unroll_folder
\* unroll_folder whose final remove_dir_all (line 171) is given parent_dir
\* instead of path
UnrollFolderRemovingParent(f, wd, path, rank) ==
    IF ~PathIsDir(f, wd, path) THEN Done("ok", f)
    ELSE IF Parent(path) = None THEN Done("err", f)
    ELSE LET r == UnrollLoop(f, wd, path, Unwrap(Parent(path)),
                             ReadDir(f, Resolve(wd, path), rank))
             q == RemoveDirAll(r.fs, Resolve(wd, Unwrap(Parent(path))))
         IN IF r.res # "ok" THEN r
            ELSE Done(IF q.ok THEN "ok" ELSE "err", q.fs)

UnrollFolder(f, wd, path, rank) ==
    IF ~PathIsDir(f, wd, path) THEN Done("ok", f)
    ELSE IF Parent(path) = None THEN Done("err", f)
    ELSE UnrollLoop(f, wd, path, Unwrap(Parent(path)),
                    ReadDir(f, Resolve(wd, path), rank))

----------------------------------------------------------------------------
(* install.rs: the extractors.  An archive is file data                      *)
(* [fmt, entries, bytes]; an entry is [name |-> relative components,         *)
(* dir |-> BOOLEAN, bytes |-> content].                                      *)

\* ZipFile::enclosed_name, and the same test of tar's Entry::unpack_in: None
\* for a name that escapes the extraction root
EnclosedName(e) ==
    IF e.name = <<>> \/ DotDot \in SeqToSet(e.name) THEN None
    ELSE Some([abs |-> FALSE, comps |-> e.name])

\* Writing one entry below the absolute directory root: the body of the loop
\* of install_from_zip (lines 57-79, root is the working directory, against
\* which the relative outpath resolves) and tar's Entry::unpack_in (root is
\* the destination).  A directory entry is create_dir_all; a file entry
\* creates the missing parents, then creates or truncates the file.
ExtractEntry(f, root, e) ==
    LET a == root \o e.name
        r1 == CreateDirAll(f, IF e.dir THEN a ELSE FsParent(a))
    IN IF EnclosedName(e) = None THEN [ok |-> TRUE, fs |-> f]
       ELSE IF e.dir \/ ~r1.ok THEN r1
       ELSE CreateFile(r1.fs, a, Raw(e.bytes))

\* the loop of install_from_zip (line 56) and tar::Archive::unpack: entries in
\* archive order, stopping at the first failure
RECURSIVE ExtractAll(_, _, _)
ExtractAll(f, root, entries) ==
    IF entries = <<>> THEN [ok |-> TRUE, fs |-> f]
    ELSE LET r == ExtractEntry(f, root, Head(entries))
         IN IF ~r.ok THEN r ELSE ExtractAll(r.fs, root, Tail(entries))

\* the directory install_from_zip hands to unroll_folder (lines 91-109)
ZipUnrollPath(path) ==
    IF FileName(path) = None THEN None
    ELSE LET st == StripSuffix(Unwrap(FileName(path)), Str_dot_zip)
         IN IF st = None THEN None ELSE Some(PathFrom(Unwrap(st)))

\* the directory install_from_tar hands to unroll_folder (lines 124-128)
TarUnrollPath(path) ==
    IF FileStem(path) = None THEN None
    ELSE Some(JoinName(ExeDir, Unwrap(FileStem(path))))

\* the directory install_from_tar_gz hands to unroll_folder (lines 191-210)
TarGzUnrollPath(path) ==
    IF FileName(path) = None THEN None
    ELSE LET st == StripSuffix(Unwrap(FileName(path)), Str_dot_tar_gz)
         IN IF st = None THEN None ELSE Some(PathFrom(Unwrap(st)))

\* The extractors up to their tail call unroll_folder(p): the result is
\* [res, fs, unroll], unroll = Some(p) when the extractor reaches that call.
\* A failed unwrap() in install_from_zip is a panic; a failed `?` an error.
Stage(r, f, u) == [res |-> r, fs |-> f, unroll |-> u]

\* install_from_zip: extracts relative to the working directory
InstallFromZip(f, wd, path, x) ==
    IF ~PathIsFile(f, wd, path) THEN Stage("err", f, None)
    ELSE IF f[Resolve(wd, path)].data.fmt # "zip" THEN Stage("err", f, None)
    ELSE IF ~x.ok THEN Stage("panic", x.fs, None)
    ELSE IF ZipUnrollPath(path) = None THEN Stage("err", x.fs, None)
    ELSE Stage("ok", x.fs, ZipUnrollPath(path))

\* install_from_tar: unpacks into the executable directory
InstallFromTar(f, wd, path, x) ==
    IF ~PathIsFile(f, wd, path) THEN Stage("err", f, None)
    ELSE IF f[Resolve(wd, path)].data.fmt # "tar" THEN Stage("err", f, None)
    ELSE IF ~x.ok THEN Stage("err", x.fs, None)
    ELSE IF TarUnrollPath(path) = None THEN Stage("err", x.fs, None)
    ELSE Stage("ok", x.fs, TarUnrollPath(path))

\* install_from_tar_gz: unpacks into the executable directory
InstallFromTarGz(f, wd, path, x) ==
    IF ~PathIsFile(f, wd, path) THEN Stage("err", f, None)
    ELSE IF f[Resolve(wd, path)].data.fmt # "targz" THEN Stage("err", f, None)
    ELSE IF ~x.ok THEN Stage("err", x.fs, None)
    ELSE IF TarGzUnrollPath(path) = None THEN Stage("err", x.fs, None)
    ELSE Stage("ok", x.fs, TarGzUnrollPath(path))

\* fs::copy
CopyFile(f, src, dst) ==
    IF FsIsFile(f, src) THEN CreateFile(f, dst, f[src].data)
    ELSE [ok |-> FALSE, fs |-> f]

\* install_simple_file that copies into a directory found at the destination
InstallSimpleFileIntoDir(f, wd, path) ==
    LET dest_path == Resolve(wd, JoinName(ExeDir, Unwrap(FileName(path))))
        inside == Append(dest_path, Unwrap(FileName(path)))
        r1 == IF FsIsFile(f, dest_path) THEN RemoveAny(f, dest_path)
              ELSE [ok |-> TRUE, fs |-> f]
        r2 == CopyFile(r1.fs, Resolve(wd, path),
                       IF FsIsDir(f, dest_path) THEN inside ELSE dest_path)
    IN IF FileName(path) = None THEN Stage("err", f, None)
       ELSE IF ~r1.ok THEN Stage("err", r1.fs, None)
       ELSE Stage(IF r2.ok THEN "ok" ELSE "err", r2.fs, None)

\* install_simple_file
InstallSimpleFile(f, wd, path) ==
    LET dest_path == Resolve(wd, JoinName(ExeDir, Unwrap(FileName(path))))
        r1 == IF FsExists(f, dest_path) THEN RemoveAny(f, dest_path)
              ELSE [ok |-> TRUE, fs |-> f]
        r2 == CopyFile(r1.fs, Resolve(wd, path), dest_path)
    IN IF FileName(path) = None THEN Stage("err", f, None)
       ELSE IF ~r1.ok THEN Stage("err", r1.fs, None)
       ELSE Stage(IF r2.ok THEN "ok" ELSE "err", r2.fs, None)

\* ArchiveKind with the .tgz arm of the match forgotten
ArchiveKindWithoutTgz(path) ==
    LET ext == Extension(path)
    IN IF ext = Some(Str_zip) THEN "Zip"
       ELSE IF ext = Some(Str_tar) THEN "Tar"
       ELSE IF ext = Some(Str_gz) THEN "TarGz"
       ELSE "PlainFile"

\* the match of install_archive (lines 34-39): which extractor a path goes to
ArchiveKind(path) ==
    LET ext == Extension(path)
    IN IF ext = Some(Str_zip) THEN "Zip"
       ELSE IF ext = Some(Str_tar) THEN "Tar"
       ELSE IF ext = Some(Str_gz) \/ ext = Some(Str_tgz) THEN "TarGz"
       ELSE "PlainFile"

\* the directory the extractor of kind k writes the entries below
ExtractRoot(k, wd) == IF k = "Zip" THEN wd ELSE ExeDir.comps

\* install_archive (lines 34-39): the extractor the match selects, given the
\* outcome x of writing the archive's entries
Dispatch(f, wd, path, x) ==
    LET k == ArchiveKind(path)
    IN CASE k = "Zip" ->
              [ran |-> "install_from_zip", out |-> InstallFromZip(f, wd, path, x)]
         [] k = "Tar" ->
              [ran |-> "install_from_tar", out |-> InstallFromTar(f, wd, path, x)]
         [] k = "TarGz" ->
              [ran |-> "install_from_tar_gz", out |-> InstallFromTarGz(f, wd, path, x)]
         [] OTHER ->
              [ran |-> "install_simple_file", out |-> InstallSimpleFile(f, wd, path)]

\* the tail call of the extractors: unroll_folder on the directory they name
TailUnroll(s, wd, rank) ==
    IF s.res = "ok" /\ IsSome(s.unroll)
    THEN UnrollFolder(s.fs, wd, Unwrap(s.unroll), rank)
    ELSE Done(s.res, s.fs)

----------------------------------------------------------------------------
(* install.rs: locations and the download *)

Letters == {"a", "b", "c", "d", "e", "f", "g", "h", "i", "j", "k", "l", "m",
            "n", "o", "p", "q", "r", "s", "t", "u", "v", "w", "x", "y", "z"}
Digits == {"0", "1", "2", "3", "4", "5", "6", "7", "8", "9"}
Str_http == <<"h", "t", "t", "p">>
Str_https == <<"h", "t", "t", "p", "s">>

\* the scheme of a location: the text before its first colon, when that text
\* is a letter followed by letters, digits, '+', '-' or '.'
UrlScheme(s) ==
    LET i == FirstIndexOf(s, ":")
        sch == SubSeq(s, 1, i - 1)
    IN IF i > 1 /\ sch[1] \in Letters
          /\ \A j \in 1..Len(sch) : sch[j] \in Letters \cup Digits \cup {"+", "-", "."}
       THEN Some(sch) ELSE None

\* what follows "scheme:" and the slashes after it, up to the next '/', '?' or '#'
UrlHost(s) ==
    LET rest == SubSeq(s, FirstIndexOf(s, ":") + 1, Len(s))
        start == CHOOSE i \in 1..(Len(rest) + 1) :
                    /\ \A j \in 1..(i - 1) : rest[j] = "/"
                    /\ i <= Len(rest) => rest[i] # "/"
        stop == CHOOSE i \in start..(Len(rest) + 1) :
                    /\ \A j \in start..(i - 1) : rest[j] \notin {"/", "?", "#"}
                    /\ i <= Len(rest) => rest[i] \in {"/", "?", "#"}
    IN SubSeq(rest, start, stop - 1)

\* reqwest::Url::parse(loc).is_ok(): an absolute URL has a scheme, and an
\* http(s) URL has a non-empty host
UrlParseOk(s) ==
    /\ UrlScheme(s) # None
    /\ Unwrap(UrlScheme(s)) \in {Str_http, Str_https} => UrlHost(s) # <<>>

\* url.rsplit('/').next() (lines 234-238)
FilenameFromUrl(url) == SubSeq(url, LastIndexOf(url, "/") + 1, Len(url))

Str_filename_eq == <<"f", "i", "l", "e", "n", "a", "m", "e", "=">>

\* str::trim_start
RECURSIVE TrimStart(_)
TrimStart(s) ==
    IF s # <<>> /\ Head(s) = " " THEN TrimStart(Tail(s)) ELSE s

\* str::trim_matches(c)
RECURSIVE TrimMatches(_, _)
TrimMatches(s, c) ==
    IF s # <<>> /\ Head(s) = c THEN TrimMatches(Tail(s), c)
    ELSE IF s # <<>> /\ s[Len(s)] = c THEN TrimMatches(SubSeq(s, 1, Len(s) - 1), c)
    ELSE s

\* the file name a Content-Disposition header carries (lines 219-233): of the
\* first part between semicolons that begins with filename=, the text
\* between its first and second '=', without surrounding quotes
ContentDispositionFilename(cd) ==
    LET parts == SplitOn(cd, ";")
        hits == {i \in 1..Len(parts) : StartsWith(TrimStart(parts[i]), Str_filename_eq)}
        first == CHOOSE i \in hits : \A j \in hits : i <= j
    IN IF hits = {} THEN None
       ELSE Some(TrimMatches(SplitOn(parts[first], "=")[2], "\""))

\* the local file name of the download (lines 219-239); the header of the
\* response is resp.content_disposition, an Option<String>
DownloadFilename(url, resp) ==
    LET cd == IF IsSome(resp.content_disposition)
              THEN ContentDispositionFilename(Unwrap(resp.content_disposition))
              ELSE None
    IN IF IsSome(cd) THEN Unwrap(cd) ELSE FilenameFromUrl(url)

\* download_archive: resp is what the server answers, [connect |-> BOOLEAN,
\* status, content_disposition |-> Option<String>, body |-> file data].
\* The result carries the path of the downloaded file and whether a request
\* was sent.
DownloadArchive(f, url, resp) ==
    LET sent == Unwrap(UrlScheme(url)) \in {Str_http, Str_https}
        temp_file == Join(TempDir, PathFrom(DownloadFilename(url, resp)))
        r == CreateFile(f, Resolve(<<>>, temp_file), resp.body)
        fail(q, g) == [res |-> "err", fs |-> g, sent |-> q, path |-> None]
    IN IF ~UrlParseOk(url) THEN fail(FALSE, f)
       ELSE IF ~sent THEN fail(FALSE, f)
       ELSE IF ~resp.connect THEN fail(TRUE, f)
       ELSE IF ~r.ok THEN fail(TRUE, r.fs)
       ELSE [res |-> "ok", fs |-> r.fs, sent |-> TRUE, path |-> Some(temp_file)]

\* LocationKind with the two tests in the other order
LocationKindUrlFirst(f, wd, loc) ==
    IF UrlParseOk(loc) THEN "RemoteURL"
    ELSE IF PathExists(f, wd, PathFrom(loc)) /\ PathIsFile(f, wd, PathFrom(loc))
    THEN "LocalPath"
    ELSE "InvalidLocation"

\* the classification of install (lines 17-22)
LocationKind(f, wd, loc) ==
    IF PathExists(f, wd, PathFrom(loc)) /\ PathIsFile(f, wd, PathFrom(loc))
    THEN "LocalPath"
    ELSE IF UrlParseOk(loc) THEN "RemoteURL"
    ELSE "InvalidLocation"

----------------------------------------------------------------------------
(* The inputs of the installer: names, payloads, filesystems, locations *)

N_t == <<"t">>
N_b == <<"b">>
N_r == <<"r">>
N_s == <<"s">>
N_x == <<"x">>
N_exe == <<"w">>
N_t_zip == N_t \o Str_dot_zip
N_t_tar == N_t \o <<".">> \o Str_tar
N_t_tar_gz == N_t \o Str_dot_tar_gz
N_t_tgz == N_t \o <<".">> \o Str_tgz
N_dot_zip == Str_dot_zip
N_colon == <<"c", ":", "t">>
N_t_zip_query == N_t_zip \o <<"?", "k", "=", "1">>

WorkDir == [abs |-> TRUE, comps |-> << <<"d">> >>]
ArchiveDir == [abs |-> TRUE, comps |-> << <<"a">> >>]

FileEntry(name, b) == [name |-> name, dir |-> FALSE, bytes |-> b]
DirEntry(name) == [name |-> name, dir |-> TRUE, bytes |-> ""]
Archive(fmt, entries) == [fmt |-> fmt, entries |-> entries, bytes |-> ""]

\* what a release archive named t.* may hold: a wrapper directory t/ (with or
\* without an entry of its own, with a child named like the wrapper), or flat
\* files
Payloads ==
    { << DirEntry(<<N_t>>), FileEntry(<<N_t, N_b>>, "new-b"), FileEntry(<<N_t, N_r>>, "new-r") >>,
      << FileEntry(<<N_t, N_b>>, "new-b"), FileEntry(<<N_t, N_s, N_r>>, "new-r") >>,
      << FileEntry(<<N_t, N_b>>, "new-b"), FileEntry(<<N_t, N_t>>, "new-t") >>,
      << FileEntry(<<N_b>>, "new-b"), FileEntry(<<N_r>>, "new-r") >> }

\* what the executable directory holds besides the executable: nothing, a file
\* b of the installed version, a directory b of the installed version, or a
\* wrapper directory t/ an earlier extraction left there
OldInstalls ==
    { <<>>,
      << FileEntry(<<N_b>>, "old-b") >>,
      << FileEntry(<<N_b, N_x>>, "old-x") >>,
      << FileEntry(<<N_b>>, "old-b"), FileEntry(<<N_t, N_b>>, "mid-b"),
         FileEntry(<<N_t, N_r>>, "mid-r") >>,
      << FileEntry(<<N_t, N_b>>, "mid-b"), FileEntry(<<N_t, N_t>>, "mid-t") >> }

\* the release files offered in ArchiveDir, by name
ReleaseFiles(payload) ==
    << [name |-> N_t_zip, data |-> Archive("zip", payload)],
       [name |-> N_t_tar, data |-> Archive("tar", payload)],
       [name |-> N_t_tar_gz, data |-> Archive("targz", payload)],
       [name |-> N_t_tgz, data |-> Archive("targz", payload)],
       [name |-> N_dot_zip, data |-> Archive("zip", payload)],
       [name |-> N_t, data |-> Raw("new-t")] >>

RECURSIVE PutFiles(_, _, _)
PutFiles(f, dir, files) ==
    IF files = <<>> THEN f
    ELSE PutFiles(CreateFile(f, Resolve(<<>>, JoinName(dir, Head(files).name)),
                             Head(files).data).fs,
                  dir, Tail(files))

MkDirs(f, dirs) ==
    [q \in DOMAIN f \cup {Resolve(<<>>, d) : d \in dirs} |->
        IF q \in DOMAIN f THEN f[q] ELSE DirNode]

\* a filesystem before an update: the executable in its directory with an
\* older installation, a working directory, the temporary directory, and the
\* release files in a directory of their own
InitialFs(payload, old) ==
    LET dirs == MkDirs(<<>>, {ExeDir, WorkDir, TempDir, ArchiveDir})
        exe == ExtractAll(dirs, ExeDir.comps, << FileEntry(<<N_exe>>, "exe") >> \o old).fs
        wrk == PutFiles(exe, WorkDir, << [name |-> N_colon, data |-> Raw("new-c")] >>)
    IN PutFiles(wrk, ArchiveDir, ReleaseFiles(payload))

EmptyPath == [abs |-> FALSE, comps |-> <<>>]
PathIn(dir, name) == JoinName(dir, name)

\* "/a/<name>"
LocIn(dir, name) == <<"/">> \o dir.comps[1] \o <<"/">> \o name
\* "http://h/<name>"
UrlOf(name) == Str_http \o <<":", "/", "/", "h", "/">> \o name

Locations ==
    {LocIn(ArchiveDir, n) : n \in {N_t_zip, N_t_tar, N_t_tar_gz, N_t_tgz, N_dot_zip, N_t}}
    \cup {UrlOf(N_t_zip), UrlOf(N_x), UrlOf(N_t_zip_query),
          UrlOf(<<>>), N_colon, N_x, LocIn(ExeDir, N_b),
          Str_http \o <<":", "/", "/">>}

Str_attachment == <<"a", "t", "t", "a", "c", "h", "m", "e", "n", "t">>
\* attachment; filename=<name>, the name quoted or not
CdHeader(name, quoted) ==
    Str_attachment \o <<";", " ">> \o Str_filename_eq
    \o (IF quoted THEN <<"\"">> \o name \o <<"\"">> ELSE name)

\* what the server may answer: the release, with or without a
\* Content-Disposition header, with a header that names a file outside the
\* temporary directory, an error page, or nothing
Responses(f) ==
    LET body(n) == f[Resolve(<<>>, JoinName(ArchiveDir, n))].data
        answer(st, cd, b) == [connect |-> TRUE, status |-> st,
                              content_disposition |-> cd, body |-> b]
    IN IF ~FsIsFile(f, Resolve(<<>>, JoinName(ArchiveDir, N_t_zip))) THEN {}
       ELSE
       { answer(200, None, body(N_t_zip)),
         answer(200, Some(CdHeader(N_t_tar, TRUE)), body(N_t_tar)),
         answer(200, Some(Str_attachment), body(N_t_zip)),
         answer(200, Some(CdHeader(LocIn(ExeDir, N_exe), FALSE)), body(N_t_zip)),
         answer(404, None, Raw("not found")),
         [connect |-> FALSE, status |-> 0, content_disposition |-> None,
          body |-> Raw("")] }

NoResponse == [connect |-> FALSE, status |-> 0, content_disposition |-> None,
               body |-> Raw("")]

\* the answers that matter to install(loc): those of the server when install
\* takes loc for a URL
ResponsesFor(f, wd, loc) ==
    IF LocationKind(f, wd, loc) = "RemoteURL" THEN Responses(f) ELSE {NoResponse}

\* the orders read_dir may yield the children of a directory in: the entry
\* named like the wrapper last, or first
Ranks == {<<N_b, N_r, N_t>>, <<N_t, N_r, N_b>>}

\* file names of many shapes, for install_archive to classify
NameStems == {<<>>, N_t, <<".">>}
NameSuffixes ==
    {<<>>, Str_zip, Str_dot_zip, <<".">> \o Str_tar, <<".">> \o Str_gz,
     <<".">> \o Str_tgz, Str_dot_tar_gz, <<".", "e", "x", "e">>,
     <<".", "Z", "I", "P">>, Str_dot_zip \o <<"x">>, Str_dot_zip \o <<".">>}
OtherNames ==
    {st \o su : st \in NameStems, su \in NameSuffixes} \ {<<>>, <<".">>, DotDot}

ArchivePaths ==
    {PathIn(ArchiveDir, n) :
        n \in {N_t_zip, N_t_tar, N_t_tar_gz, N_t_tgz, N_dot_zip, N_t} \cup OtherNames}

\* directories unroll_folder is called on: the wrapper in the executable
\* directory, absolute and relative, and a path that does not exist
UnrollPaths ==
    {PathIn(ExeDir, N_t), PathIn(ExeDir, N_b), PathIn(ExeDir, N_s),
     [abs |-> FALSE, comps |-> <<N_t>>], [abs |-> FALSE, comps |-> <<N_b>>]}

----------------------------------------------------------------------------
(* rhai.rs: the script policy engine.  A script is [exists |-> the file is   *)
(* there, compiles |-> BOOLEAN, fns |-> the functions of its AST, in the      *)
(* order AST::iter_functions yields them]; a function is [name, params |->    *)
(* parameter names, private].                                                 *)

CURRENT_VERSION_FN == "current_version"
LATEST_VERSION_FN == "latest_version"
INSTALL_VERSION_FN == "install_version"

Fn(name, params, private) == [name |-> name, params |-> params, private |-> private]
EngineError(fn, rule) == [ok |-> FALSE, fn |-> fn, rule |-> rule]
EngineOk == [ok |-> TRUE, fn |-> "", rule |-> ""]

\* CheckVersionFn without its visibility check
CheckVersionFnIgnoringVisibility(func) ==
    IF func.params # <<>> THEN "parameter-count"
    ELSE ""

\* the checks of a zero-parameter function (lines 80-91 and 95-106): the
\* rule the function breaks first, "" when it breaks none
CheckVersionFn(func) ==
    IF func.params # <<>> THEN "parameter-count"
    ELSE IF func.private THEN "visibility"
    ELSE ""

\* the checks of install_version (lines 111-130)
CheckInstallFn(func) ==
    IF Len(func.params) # 1 THEN "parameter-count"
    ELSE IF func.params[1] # "version" THEN "parameter-name"
    ELSE IF func.private THEN "visibility"
    ELSE ""

\* one arm of the match (lines 78-134)
CheckFn(func) ==
    CASE func.name = LATEST_VERSION_FN -> CheckVersionFn(func)
      [] func.name = CURRENT_VERSION_FN -> CheckVersionFn(func)
      [] func.name = INSTALL_VERSION_FN -> CheckInstallFn(func)
      [] OTHER -> ""

\* the three tests after the loop (lines 137-149), in a different order
MissingFnInstallFirst(has) ==
    IF INSTALL_VERSION_FN \notin has THEN EngineError(INSTALL_VERSION_FN, "missing")
    ELSE IF CURRENT_VERSION_FN \notin has THEN EngineError(CURRENT_VERSION_FN, "missing")
    ELSE IF LATEST_VERSION_FN \notin has THEN EngineError(LATEST_VERSION_FN, "missing")
    ELSE EngineOk

\* the three tests after the loop (lines 137-149); has is the set of the
\* has_* flags that are set
MissingFn(has) ==
    IF LATEST_VERSION_FN \notin has THEN EngineError(LATEST_VERSION_FN, "missing")
    ELSE IF CURRENT_VERSION_FN \notin has THEN EngineError(CURRENT_VERSION_FN, "missing")
    ELSE IF INSTALL_VERSION_FN \notin has THEN EngineError(INSTALL_VERSION_FN, "missing")
    ELSE EngineOk

\* the loop over ast.iter_functions() (lines 77-135), then the three tests
RECURSIVE ValidateFns(_, _)
ValidateFns(fns, has) ==
    IF fns = <<>> THEN MissingFn(has)
    ELSE IF CheckFn(Head(fns)) # "" THEN EngineError(Head(fns).name, CheckFn(Head(fns)))
    ELSE ValidateFns(Tail(fns), has \cup {Head(fns).name})

\* WasaupEngine::new
New(scr) ==
    IF ~scr.compiles THEN EngineError("", "compile")
    ELSE ValidateFns(scr.fns, {})

\* The functions a script may declare.  Rhai overloads functions by their
\* number of parameters, so one name may be declared with several arities, and
\* never twice with the same.
FnUniverse ==
    {Fn(n, ps, pr) : n \in {LATEST_VERSION_FN, CURRENT_VERSION_FN},
                     ps \in {<<>>, <<"x">>}, pr \in BOOLEAN}
    \cup {Fn(INSTALL_VERSION_FN, ps, pr) :
             ps \in {<<"version">>, <<"v">>}, pr \in BOOLEAN}
    \cup {Fn(INSTALL_VERSION_FN, <<"a", "b">>, FALSE), Fn("helper", <<>>, FALSE)}

MaxFns == 4

DistinctKeys(fns) ==
    \A i, j \in 1..Len(fns) :
        (i # j) => ~(fns[i].name = fns[j].name
                     /\ Len(fns[i].params) = Len(fns[j].params))

RECURSIVE FnSeqs(_)
FnSeqs(n) ==
    IF n = 0 THEN {<<>>}
    ELSE LET shorter == FnSeqs(n - 1)
         IN shorter \cup {t \in {Append(q, f) : q \in shorter, f \in FnUniverse} :
                             DistinctKeys(t)}

Scripts ==
    {[exists |-> TRUE, compiles |-> TRUE, fns |-> q] : q \in FnSeqs(MaxFns)}
    \cup {[exists |-> TRUE, compiles |-> FALSE, fns |-> <<>>]}

\* no script file
NoScript == [exists |-> FALSE, compiles |-> FALSE, fns |-> <<>>]
NotLoaded == [ok |-> FALSE, fn |-> "", rule |-> "not-loaded"]

----------------------------------------------------------------------------
(* Versions: semver::Version, and the three script calls of the engine *)

DigitChars == <<"0", "1", "2", "3", "4", "5", "6", "7", "8", "9">>
DigitVal(c) == (CHOOSE i \in 1..10 : DigitChars[i] = c) - 1

AllDigits(s) == \A i \in 1..Len(s) : s[i] \in Digits

\* a numeric identifier: digits, without a leading zero
ValidNum(s) ==
    /\ s # <<>>
    /\ AllDigits(s)
    /\ Len(s) > 1 => s[1] # "0"

RECURSIVE NumVal(_)
NumVal(s) ==
    IF s = <<>> THEN 0
    ELSE NumVal(SubSeq(s, 1, Len(s) - 1)) * 10 + DigitVal(s[Len(s)])

RECURSIVE NatToStr(_)
NatToStr(n) ==
    IF n < 10 THEN <<DigitChars[n + 1]>>
    ELSE NatToStr(n \div 10) \o <<DigitChars[(n % 10) + 1]>>

IdentChars == Letters \cup Digits \cup {"-"}

\* the identifiers of a pre-release: not empty, and not numeric with a
\* leading zero
ValidPre(s) ==
    \A i \in 1..Len(SplitOn(s, ".")) :
        LET id == SplitOn(s, ".")[i]
        IN /\ id # <<>>
           /\ \A k \in 1..Len(id) : id[k] \in IdentChars
           /\ AllDigits(id) => ValidNum(id)

\* the identifiers of build metadata: not empty
ValidBuild(s) ==
    \A i \in 1..Len(SplitOn(s, ".")) :
        LET id == SplitOn(s, ".")[i]
        IN /\ id # <<>>
           /\ \A k \in 1..Len(id) : id[k] \in IdentChars

Version(major, minor, patch, pre, build) ==
    [major |-> major, minor |-> minor, patch |-> patch, pre |-> pre,
     build |-> build]

\* semver::Version::parse: major.minor.patch[-pre][+build]
ParseVersion(s) ==
    LET plus == FirstIndexOf(s, "+")
        head == IF plus = 0 THEN s ELSE SubSeq(s, 1, plus - 1)
        build == IF plus = 0 THEN <<>> ELSE SubSeq(s, plus + 1, Len(s))
        dash == FirstIndexOf(head, "-")
        core == IF dash = 0 THEN head ELSE SubSeq(head, 1, dash - 1)
        pre == IF dash = 0 THEN <<>> ELSE SubSeq(head, dash + 1, Len(head))
        nums == SplitOn(core, ".")
    IN IF /\ Len(nums) = 3
          /\ \A i \in 1..3 : ValidNum(nums[i])
          /\ dash # 0 => ValidPre(pre)
          /\ plus # 0 => ValidBuild(build)
       THEN Some(Version(NumVal(nums[1]), NumVal(nums[2]), NumVal(nums[3]),
                         pre, build))
       ELSE None

\* Version::to_string without the build metadata
VersionToStringWithoutBuild(v) ==
    NatToStr(v.major) \o <<".">> \o NatToStr(v.minor) \o <<".">> \o NatToStr(v.patch)
    \o (IF v.pre = <<>> THEN <<>> ELSE <<"-">> \o v.pre)

\* Version::to_string (Display)
VersionToString(v) ==
    NatToStr(v.major) \o <<".">> \o NatToStr(v.minor) \o <<".">> \o NatToStr(v.patch)
    \o (IF v.pre = <<>> THEN <<>> ELSE <<"-">> \o v.pre)
    \o (IF v.build = <<>> THEN <<>> ELSE <<"+">> \o v.build)

\* what a call of a script function comes back with: a script error, a value
\* that is not a string, or a string
ScriptError == [kind |-> "error", val |-> <<>>]
NotAString == [kind |-> "other", val |-> <<>>]
Returned(s) == [kind |-> "string", val |-> s]

VersionErr == [ok |-> FALSE, version |-> None]

\* WasaupEngine::current_version that takes any string for a version
EngineCurrentVersionUnchecked(ret) ==
    IF ret.kind # "string" THEN VersionErr
    ELSE IF ParseVersion(ret.val) = None
         THEN [ok |-> TRUE, version |-> Some(Version(0, 0, 0, <<>>, <<>>))]
         ELSE [ok |-> TRUE, version |-> ParseVersion(ret.val)]

\* WasaupEngine::current_version, ret being what the script function returns
EngineCurrentVersion(ret) ==
    IF ret.kind # "string" THEN VersionErr
    ELSE IF ParseVersion(ret.val) = None THEN VersionErr
         ELSE [ok |-> TRUE, version |-> ParseVersion(ret.val)]

\* WasaupEngine::latest_version
EngineLatestVersion(ret) ==
    IF ret.kind # "string" THEN VersionErr
    ELSE IF ParseVersion(ret.val) = None THEN VersionErr
         ELSE [ok |-> TRUE, version |-> ParseVersion(ret.val)]

\* WasaupEngine::install_version
EngineInstallVersion(ret) ==
    IF ret.kind # "string" THEN [ok |-> FALSE, loc |-> <<>>]
    ELSE [ok |-> TRUE, loc |-> ret.val]

\* the comparison of main, on the major version alone
WillUpdateOnMajor(current, latest) == current.major # latest.major

\* let will_update = current_version != latest_version
WillUpdate(current, latest) == current # latest

----------------------------------------------------------------------------
(* The library as a state machine: calls of its public functions *)

MaxOps == 1

IdleMain ==
    /\ script = NoScript /\ loaded = NotLoaded /\ pc = "lib" /\ args = <<>>
    /\ current_version = None /\ latest_version = None /\ install_path = None
    /\ will_update = None /\ calls = <<>> /\ exit_code = None

NoOp == [name |-> "none", loc |-> <<>>, path |-> EmptyPath, res |-> "none",
         ran |-> "none", sent |-> FALSE, via |-> "none", pre |-> <<>>]

InitInstall ==
    /\ \E payload \in Payloads, old \in OldInstalls : fs = InitialFs(payload, old)
    /\ cwd \in {ExeDir.comps, WorkDir.comps}
    /\ net = <<>>
    /\ op = NoOp
    /\ nops = 0
    /\ IdleMain

MainUnchanged ==
    UNCHANGED <<script, loaded, pc, args, current_version, latest_version,
                install_path, will_update, calls, exit_code>>

OpRecord(name, loc, path, res, ran, sent, via) ==
    [name |-> name, loc |-> loc, path |-> path, res |-> res, ran |-> ran,
     sent |-> sent, via |-> via, pre |-> fs]

\* install_archive(path) on filesystem f, called as `name` with location loc;
\* sent and via tell how install came to the file
RunInstallArchive(name, loc, path, f, rank, sent, via) ==
    \E x \in {ExtractAll(f, ExtractRoot(ArchiveKind(path), cwd),
                         IF PathIsFile(f, cwd, path)
                         THEN f[Resolve(cwd, path)].data.entries ELSE <<>>)} :
    \E s \in {Dispatch(f, cwd, path, x)} :
    \E u \in {TailUnroll(s.out, cwd, rank)} :
        /\ fs' = u.fs
        /\ op' = OpRecord(name, loc, path, u.res, s.ran, sent, via)

\* install(loc): the classification, download_install_archive for a URL, and
\* install_archive on the local or the downloaded file
RunInstall(loc, resp, rank) ==
    \E k \in {LocationKind(fs, cwd, loc)} :
        \/ /\ k = "InvalidLocation"
           /\ fs' = fs
           /\ net' = net
           /\ op' = OpRecord("install", loc, EmptyPath, "err", "none", FALSE, k)
        \/ /\ k = "LocalPath"
           /\ net' = net
           /\ RunInstallArchive("install", loc, PathFrom(loc), fs, rank, FALSE, k)
        \/ /\ k = "RemoteURL"
           /\ \E d \in {DownloadArchive(fs, loc, resp)} :
                /\ net' = IF d.sent THEN Append(net, [url |-> loc, resp |-> resp])
                                  ELSE net
                /\ \/ /\ d.res # "ok"
                      /\ fs' = d.fs
                      /\ op' = OpRecord("install", loc, EmptyPath, d.res, "none", d.sent, k)
                   \/ /\ d.res = "ok"
                      /\ RunInstallArchive("install", loc, Unwrap(d.path), d.fs,
                                           rank, d.sent, k)

\* a caller invokes install(loc)
CallInstall ==
    /\ nops < MaxOps
    /\ \E loc \in Locations, rank \in Ranks :
       \E resp \in ResponsesFor(fs, cwd, loc) :
         RunInstall(loc, resp, rank)
    /\ nops' = nops + 1
    /\ UNCHANGED cwd
    /\ MainUnchanged

\* a caller invokes install_archive(path)
CallInstallArchive ==
    /\ nops < MaxOps
    /\ \E path \in ArchivePaths, rank \in Ranks :
         RunInstallArchive("install_archive", <<>>, path, fs, rank, FALSE, "LocalPath")
    /\ nops' = nops + 1
    /\ UNCHANGED <<cwd, net>>
    /\ MainUnchanged

\* a caller invokes unroll_folder(path)
CallUnrollFolder ==
    /\ nops < MaxOps
    /\ \E path \in UnrollPaths, rank \in Ranks :
         \E r \in {UnrollFolder(fs, cwd, path, rank)} :
            /\ fs' = r.fs
            /\ op' = OpRecord("unroll_folder", <<>>, path, r.res, "none", FALSE, "none")
    /\ nops' = nops + 1
    /\ UNCHANGED <<cwd, net>>
    /\ MainUnchanged

NextInstall == CallInstall \/ CallInstallArchive \/ CallUnrollFolder

SpecInstall == InitInstall /\ [][NextInstall]_vars

----------------------------------------------------------------------------
(* The engine on its own: one script, one call of WasaupEngine::new *)

InitEngine ==
    /\ script \in Scripts
    /\ loaded = NotLoaded
    /\ pc = "new"
    /\ fs = <<>> /\ cwd = <<>> /\ net = <<>> /\ op = NoOp /\ nops = 0
    /\ args = <<>> /\ current_version = None /\ latest_version = None
    /\ install_path = None /\ will_update = None /\ calls = <<>>
    /\ exit_code = None

\* a caller invokes WasaupEngine::new(script)
CallNew ==
    /\ pc = "new"
    /\ loaded' = New(script)
    /\ pc' = "loaded"
    /\ UNCHANGED <<fs, cwd, net, op, nops, script, args, current_version,
                   latest_version, install_path, will_update, calls, exit_code>>

NextEngine == CallNew

SpecEngine == InitEngine /\ [][NextEngine]_vars

----------------------------------------------------------------------------
(* main.rs: one run of the command line tool *)

DEFAULT_SCRIPT ==
    [exists |-> TRUE, compiles |-> TRUE,
     fns |-> << Fn(CURRENT_VERSION_FN, <<>>, FALSE),
                Fn(LATEST_VERSION_FN, <<>>, FALSE),
                Fn(INSTALL_VERSION_FN, <<"version">>, FALSE) >>]

\* the script files of a run
MainScripts ==
    { NoScript,
      DEFAULT_SCRIPT,
      [exists |-> TRUE, compiles |-> FALSE, fns |-> <<>>],
      [exists |-> TRUE, compiles |-> TRUE,
       fns |-> << Fn(CURRENT_VERSION_FN, <<>>, FALSE),
                  Fn(LATEST_VERSION_FN, <<>>, FALSE) >>],
      [exists |-> TRUE, compiles |-> TRUE,
       fns |-> << Fn(CURRENT_VERSION_FN, <<>>, FALSE),
                  Fn(LATEST_VERSION_FN, <<>>, TRUE),
                  Fn(INSTALL_VERSION_FN, <<"version">>, FALSE) >>] }

V_1_0_0 == <<"1", ".", "0", ".", "0">>
V_1_10_0 == <<"1", ".", "1", "0", ".", "0">>
V_1_0_0_pre == <<"1", ".", "0", ".", "0", "-", "a", ".", "1">>
V_1_0_0_build == <<"1", ".", "0", ".", "0", "+", "b">>
V_leading_zero == <<"0", "1", ".", "0", ".", "0">>
V_two_parts == <<"1", ".", "0">>

\* what current_version and latest_version of the script may return
VersionReturns ==
    {ScriptError, NotAString}
    \cup {Returned(s) : s \in {V_1_0_0, V_1_10_0, V_1_0_0_pre, V_1_0_0_build,
                               V_leading_zero, V_two_parts}}

\* what install_version of the script may return
LocationReturns ==
    {ScriptError, NotAString}
    \cup {Returned(l) : l \in {LocIn(ArchiveDir, N_t_zip), LocIn(ArchiveDir, N_t_tar_gz),
                               UrlOf(N_t_zip), N_x}}

ArgsOfMain == [check : BOOLEAN, init : BOOLEAN, run_after : {<<>>, <<"p">>}]

Call(fn, arg, ret) == [fn |-> fn, arg |-> arg, ret |-> ret]

Init ==
    /\ fs \in {InitialFs(<< DirEntry(<<N_t>>), FileEntry(<<N_t, N_b>>, "new-b"),
                            FileEntry(<<N_t, N_r>>, "new-r") >>, old) :
                  old \in {<<>>, << FileEntry(<<N_b>>, "old-b") >>}}
    /\ cwd \in {ExeDir.comps, WorkDir.comps}
    /\ net = <<>>
    /\ op = NoOp
    /\ nops = 0
    /\ script \in MainScripts
    /\ loaded = NotLoaded
    /\ pc = "start"
    /\ args \in ArgsOfMain
    /\ current_version = None /\ latest_version = None /\ install_path = None
    /\ will_update = None /\ calls = <<>> /\ exit_code = None

\* std::process::exit(code), and the return of main
Exit(code) == pc' = "done" /\ exit_code' = Some(code)

InstallUnchanged == UNCHANGED <<fs, cwd, net, op, nops>>

\* init (lines 112-150): writes the placeholder script and exits; the call
\* is logged with the script file as init found it
MainInit ==
    /\ pc = "start" /\ args.init
    /\ \E written \in BOOLEAN :
         /\ calls' = Append(calls, Call("init", script,
                                        [kind |-> IF written THEN "ok" ELSE "err",
                                         val |-> <<>>]))
         /\ IF written THEN script' = DEFAULT_SCRIPT /\ Exit(0)
                       ELSE script' = script /\ Exit(1)
    /\ InstallUnchanged
    /\ UNCHANGED <<loaded, args, current_version, latest_version, install_path,
                   will_update>>

\* lines 162-179: the script file must exist
MainScriptExists ==
    /\ pc = "start" /\ ~args.init
    /\ IF script.exists THEN pc' = "load" /\ exit_code' = exit_code
                        ELSE Exit(1)
    /\ InstallUnchanged
    /\ UNCHANGED <<script, loaded, args, current_version, latest_version,
                   install_path, will_update, calls>>

\* lines 180-198: WasaupEngine::new
MainLoad ==
    /\ pc = "load"
    /\ loaded' = New(script)
    /\ calls' = Append(calls, Call("load", <<>>, loaded'))
    /\ IF loaded'.ok THEN pc' = "current_version" /\ exit_code' = exit_code
                     ELSE Exit(1)
    /\ InstallUnchanged
    /\ UNCHANGED <<script, args, current_version, latest_version, install_path,
                   will_update>>

\* lines 199-214
MainCurrentVersion ==
    /\ pc = "current_version"
    /\ \E ret \in VersionReturns :
       \E r \in {EngineCurrentVersion(ret)} :
         /\ calls' = Append(calls, Call(CURRENT_VERSION_FN, <<>>, ret))
         /\ IF r.ok
            THEN /\ current_version' = r.version
                 /\ pc' = "latest_version" /\ exit_code' = exit_code
            ELSE /\ current_version' = current_version
                 /\ Exit(1)
    /\ InstallUnchanged
    /\ UNCHANGED <<script, loaded, args, latest_version, install_path, will_update>>

\* lines 216-231
MainLatestVersion ==
    /\ pc = "latest_version"
    /\ \E ret \in VersionReturns :
       \E r \in {EngineLatestVersion(ret)} :
         /\ calls' = Append(calls, Call(LATEST_VERSION_FN, <<>>, ret))
         /\ IF r.ok
            THEN /\ latest_version' = r.version
                 /\ pc' = "install_version" /\ exit_code' = exit_code
            ELSE /\ latest_version' = latest_version
                 /\ Exit(1)
    /\ InstallUnchanged
    /\ UNCHANGED <<script, loaded, args, current_version, install_path, will_update>>

\* lines 232-251: install_version(latest_version.to_string())
MainInstallVersion ==
    /\ pc = "install_version"
    /\ \E ret \in LocationReturns :
       \E r \in {EngineInstallVersion(ret)} :
         /\ calls' = Append(calls, Call(INSTALL_VERSION_FN,
                                        VersionToString(Unwrap(latest_version)), ret))
         /\ IF r.ok
            THEN /\ install_path' = Some(r.loc)
                 /\ pc' = "compare" /\ exit_code' = exit_code
            ELSE /\ install_path' = install_path
                 /\ Exit(1)
    /\ InstallUnchanged
    /\ UNCHANGED <<script, loaded, args, current_version, latest_version, will_update>>

\* MainCompare without the exit of --check
MainCompareWithoutCheckExit ==
    /\ pc = "compare"
    /\ will_update' = Some(WillUpdate(Unwrap(current_version), Unwrap(latest_version)))
    /\ pc' = IF Unwrap(will_update') THEN "install" ELSE "run_after"
    /\ exit_code' = exit_code
    /\ InstallUnchanged
    /\ UNCHANGED <<script, loaded, args, current_version, latest_version,
                   install_path, calls>>

\* lines 252-293: the comparison, the report, and the exit of --check
MainCompare ==
    /\ pc = "compare"
    /\ will_update' = Some(WillUpdate(Unwrap(current_version), Unwrap(latest_version)))
    /\ IF args.check THEN Exit(0)
       ELSE /\ pc' = IF Unwrap(will_update') THEN "install" ELSE "run_after"
            /\ exit_code' = exit_code
    /\ InstallUnchanged
    /\ UNCHANGED <<script, loaded, args, current_version, latest_version,
                   install_path, calls>>

\* lines 295-324: install(install_path); a panic of install aborts the process
MainInstall ==
    /\ pc = "install"
    /\ \E rank \in Ranks :
       \E resp \in ResponsesFor(fs, cwd, Unwrap(install_path)) :
         RunInstall(Unwrap(install_path), resp, rank)
    /\ calls' = Append(calls, Call("install", Unwrap(install_path),
                                   [kind |-> op'.res, val |-> <<>>]))
    /\ CASE op'.res = "ok" -> pc' = "run_after" /\ exit_code' = exit_code
         [] op'.res = "err" -> Exit(1)
         [] OTHER -> Exit(101)
    /\ UNCHANGED <<cwd, nops, script, loaded, args, current_version,
                   latest_version, install_path, will_update>>

\* lines 326-396: the command to run after the update, then the end of main
MainRunAfter ==
    /\ pc = "run_after"
    /\ IF args.run_after = <<>>
       THEN calls' = calls /\ Exit(0)
       ELSE \E spawned \in BOOLEAN :
              IF spawned
              THEN /\ calls' = Append(calls, Call("run_after", args.run_after,
                                                  [kind |-> "ok", val |-> <<>>]))
                   /\ Exit(0)
              ELSE calls' = calls /\ Exit(1)
    /\ InstallUnchanged
    /\ UNCHANGED <<script, loaded, args, current_version, latest_version,
                   install_path, will_update>>

Next ==
    \/ MainInit
    \/ MainScriptExists
    \/ MainLoad
    \/ MainCurrentVersion
    \/ MainLatestVersion
    \/ MainInstallVersion
    \/ MainCompare
    \/ MainInstall
    \/ MainRunAfter

Spec == Init /\ [][Next]_vars

----------------------------------------------------------------------------
(* Properties of the installer *)

\* the node and everything below it at a in f equals that at b in g
SameTree(f, a, g, b) ==
    /\ FsExists(f, a) /\ FsExists(g, b)
    /\ \A q \in DOMAIN f : IsPrefix(a, q) =>
          LET q2 == b \o SubSeq(q, Len(a) + 1, Len(q))
          IN q2 \in DOMAIN g /\ g[q2] = f[q]
    /\ \A q \in DOMAIN g : IsPrefix(b, q) =>
          (a \o SubSeq(q, Len(b) + 1, Len(q))) \in DOMAIN f

IsInstallOp == op.name \in {"install", "install_archive"}
OpFile == Resolve(cwd, op.path)
OpFileName == Unwrap(FileName(op.path))
\* the entries of the local archive the last call installed
OpEntries == op.pre[OpFile].data.entries

\* every entry of the archive lies under the one top-level directory n
Wrapped(entries, n) ==
    /\ entries # <<>>
    /\ \A i \in 1..Len(entries) : entries[i].name # <<>> /\ entries[i].name[1] = n
WrapperChildren(entries) ==
    {entries[i].name[2] : i \in {j \in 1..Len(entries) : Len(entries[j].name) >= 2}}

\* the flat layout in directory dir: every file of the archive sits in dir
\* without the wrapper n in its path, and n is there only as a former child
Flattened(f, dir, entries, n) ==
    /\ \A i \in 1..Len(entries) :
          (~entries[i].dir /\ Len(entries[i].name) >= 2) =>
              LET a == dir \o Tail(entries[i].name)
              IN FsIsFile(f, a) /\ f[a].data = Raw(entries[i].bytes)
    /\ \A c \in WrapperChildren(entries) : FsExists(f, dir \o <<c>>)
    /\ n \notin WrapperChildren(entries) => ~FsExists(f, dir \o <<n>>)

\* C10: unroll(path) always succeeds; a path that is no directory changes
\* nothing; otherwise every former child of path, with all below it, is at
\* parent(path)/child_name afterwards, and path is gone as the wrapper.
C10_UnrollMovesEveryChild ==
    op.name = "unroll_folder" =>
        LET a == Resolve(cwd, op.path)
            ch == FsChildren(op.pre, a)
        IN /\ op.res = "ok"
           /\ ~PathIsDir(op.pre, cwd, op.path) => fs = op.pre
           /\ PathIsDir(op.pre, cwd, op.path) =>
                 /\ \A c \in ch :
                       SameTree(op.pre, a \o <<c>>, fs, FsParent(a) \o <<c>>)
                 /\ a[Len(a)] \notin ch => ~FsExists(fs, a)

\* C3: installing a Zip archive N.zip whose entries all lie under N/ leaves
\* the children of N/ directly in the executable directory, with no N
\* directory there, whatever the working directory is.
C3_ZipFlattensIntoExeDir ==
    (/\ IsInstallOp /\ op.via = "LocalPath" /\ op.ran = "install_from_zip"
     /\ PathIsFile(op.pre, cwd, op.path)
     /\ OpFileName = N_t_zip
     /\ op.pre[OpFile].data.fmt = "zip"
     /\ Wrapped(OpEntries, N_t))
    => /\ op.res = "ok"
       /\ Flattened(fs, ExeDir.comps, OpEntries, N_t)

\* C9: a TarGz archive (.tar.gz, .tgz, .gz) whose content extracts without
\* error is extracted into the executable directory and normalised on
\* ExecutableDirectory/basename, whatever the working directory is, and the
\* install succeeds.
C9_TarGzNormalisedInExeDir ==
    (/\ IsInstallOp /\ op.via = "LocalPath" /\ op.ran = "install_from_tar_gz"
     /\ PathIsFile(op.pre, cwd, op.path)
     /\ op.pre[OpFile].data.fmt = "targz"
     /\ ExtractAll(op.pre, ExeDir.comps, OpEntries).ok)
    => /\ op.res = "ok"
       /\ Wrapped(OpEntries, N_t) /\ N_t \notin WrapperChildren(OpEntries)
             => Flattened(fs, ExeDir.comps, OpEntries, N_t)

\* C7: install classifies the location once, by priority: an existing regular
\* file is installed as a local path, also when the string parses as a URL;
\* otherwise a string that parses as a URL is downloaded; otherwise install
\* fails at once, with no request sent and nothing written.
C7_LocationClassifiedByPriority ==
    op.name = "install" =>
        LET local == PathIsFile(op.pre, cwd, PathFrom(op.loc))
            url == UrlParseOk(op.loc)
        IN /\ local =>
                 /\ op.via = "LocalPath" /\ ~op.sent
                 /\ op.path = PathFrom(op.loc) /\ op.ran # "none"
           /\ (~local /\ url) =>
                 /\ op.via = "RemoteURL"
                 /\ Unwrap(UrlScheme(op.loc)) \in {Str_http, Str_https} => op.sent
           /\ (~local /\ ~url) =>
                 /\ op.via = "InvalidLocation" /\ op.res = "err"
                 /\ ~op.sent /\ op.ran = "none" /\ fs = op.pre

\* a local file whose name also parses as a URL was installed from the disk
C7_Witness ==
    /\ op.name = "install" /\ op.loc = N_colon /\ UrlParseOk(op.loc)
    /\ op.via = "LocalPath" /\ op.res = "ok"
    /\ FsIsFile(fs, ExeDir.comps \o <<N_colon>>)

ExtractorOf(kind) ==
    CASE kind = "Zip" -> "install_from_zip"
      [] kind = "Tar" -> "install_from_tar"
      [] kind = "TarGz" -> "install_from_tar_gz"
      [] OTHER -> "install_simple_file"

\* C8 as stated: the kind is decided by the suffix of the file name alone: a
\* name ending in .zip is Zip, in .tar is Tar, in .gz or .tgz is TarGz, any
\* other name is PlainFile, and install_archive runs the extractor of that kind.
C8_KindBySuffix ==
    (IsInstallOp /\ op.ran # "none" /\ IsSome(FileName(op.path))) =>
        LET n == OpFileName
            kind == IF EndsWith(n, Str_dot_zip) THEN "Zip"
                    ELSE IF EndsWith(n, <<".">> \o Str_tar) THEN "Tar"
                    ELSE IF EndsWith(n, <<".">> \o Str_gz)
                            \/ EndsWith(n, <<".">> \o Str_tgz) THEN "TarGz"
                    ELSE "PlainFile"
        IN op.ran = ExtractorOf(kind)

\* name ends in ".e" and has at least one character before that dot
HasExtension(n, e) == EndsWith(n, <<".">> \o e) /\ Len(n) > Len(e) + 1

\* C8 as amended: the kind is decided by the extension of the file name, and a
\* name that is nothing but a dot and the suffix (.zip, .tar, .gz, .tgz) has no
\* extension: it is PlainFile.  Every name has one kind and install_archive
\* runs the extractor of that kind.
C8_KindByExtension ==
    (IsInstallOp /\ op.ran # "none" /\ IsSome(FileName(op.path))) =>
        LET n == OpFileName
            kind == IF HasExtension(n, Str_zip) THEN "Zip"
                    ELSE IF HasExtension(n, Str_tar) THEN "Tar"
                    ELSE IF HasExtension(n, Str_gz) \/ HasExtension(n, Str_tgz)
                         THEN "TarGz"
                    ELSE "PlainFile"
        IN op.ran = ExtractorOf(kind)

\* the file named .zip went to install_simple_file
C8_Witness ==
    /\ op.name = "install_archive" /\ OpFileName = N_dot_zip
    /\ op.ran = "install_simple_file" /\ op.res = "ok"

----------------------------------------------------------------------------
(* Properties of the engine *)

Declared(scr) == {scr.fns[i] : i \in 1..Len(scr.fns)}
RequiredFns == <<LATEST_VERSION_FN, CURRENT_VERSION_FN, INSTALL_VERSION_FN>>
RequiredNames == {RequiredFns[i] : i \in 1..3}
RequiredParams(n) == IF n = INSTALL_VERSION_FN THEN <<"version">> ELSE <<>>

\* the script declares n as a public function of the required parameters
DeclaresPublic(scr, n) ==
    \E f \in Declared(scr) :
        f.name = n /\ f.params = RequiredParams(n) /\ ~f.private

\* the rules a declaration breaks
Broken(f) ==
    IF f.name \notin RequiredNames THEN {}
    ELSE {r \in {"parameter-count"} : Len(f.params) # Len(RequiredParams(f.name))}
         \cup {r \in {"visibility"} : f.private}
         \cup {r \in {"parameter-name"} :
                  /\ f.name = INSTALL_VERSION_FN
                  /\ Len(f.params) = 1 /\ f.params[1] # "version"}

\* every declaration under one of the three names has the required shape
WellShaped(scr) == \A f \in Declared(scr) : Broken(f) = {}

Missing(scr) == {n \in RequiredNames : \A f \in Declared(scr) : f.name # n}

\* C4: load succeeds for every script that declares current_version(),
\* latest_version() and install_version(version) as public functions, and
\* for every script that is missing exactly one of the three (and declares
\* the other two) it fails with an error naming exactly the missing function
C4_LoadBySignatures ==
    (pc = "loaded" /\ script.compiles) =>
        /\ (\A n \in RequiredNames : DeclaresPublic(script, n)) => loaded.ok
        /\ \A n \in RequiredNames :
              (/\ Missing(script) = {n}
               /\ \A m \in RequiredNames \ {n} : DeclaresPublic(script, m))
              => (~loaded.ok /\ loaded.fn = n /\ loaded.rule = "missing")

\* C4 (amended): a script that compiles loads exactly when it declares the
\* three functions and every declaration under one of the three names has
\* the required shape; when every such declaration has the required shape
\* and exactly one of the three names is missing, load fails with an error
\* naming exactly the missing function
C4_LoadByShape ==
    (pc = "loaded" /\ script.compiles) =>
        /\ loaded.ok <=> (WellShaped(script) /\ Missing(script) = {})
        /\ \A n \in RequiredNames :
              (WellShaped(script) /\ Missing(script) = {n})
              => (~loaded.ok /\ loaded.fn = n /\ loaded.rule = "missing")

\* a script of the three public functions and a helper has loaded
C4_Witness ==
    /\ pc = "loaded" /\ script.compiles
    /\ WellShaped(script) /\ Missing(script) = {}
    /\ loaded.ok
    /\ Len(script.fns) = MaxFns

FirstOf(order, S) == order[CHOOSE i \in 1..Len(order) :
                              /\ order[i] \in S
                              /\ \A j \in 1..(i - 1) : order[j] \notin S]

\* the rules broken under the name n, by any declaration or by none
BrokenUnder(scr, n) ==
    UNION {Broken(f) : f \in {g \in Declared(scr) : g.name = n}}
    \cup {r \in {"missing"} : n \in Missing(scr)}

\* C5: of the violations of a script, load reports the one of the first
\* function in the order latest_version, current_version, install_version,
\* and for that function a parameter-count violation before a visibility
\* violation before a parameter-name violation
C5_ErrorByPriority ==
    (pc = "loaded" /\ script.compiles /\ ~loaded.ok) =>
        LET bad == {n \in RequiredNames : BrokenUnder(script, n) # {}}
            n == FirstOf(RequiredFns, bad)
        IN /\ loaded.fn = n
           /\ loaded.rule = FirstOf(<<"parameter-count", "visibility",
                                      "parameter-name", "missing">>,
                                    BrokenUnder(script, n))

RuleOrder(n) ==
    IF n = INSTALL_VERSION_FN
    THEN <<"parameter-count", "parameter-name", "visibility">>
    ELSE <<"parameter-count", "visibility">>

\* C5 (amended): load reports one error: that of the first declaration, in
\* the order the engine iterates the script's functions, that breaks a rule,
\* and for it a parameter-count violation first, then for install_version a
\* parameter-name violation before a visibility violation; a missing
\* function is reported only when no declaration breaks a rule, and then the
\* first missing in the order latest_version, current_version,
\* install_version
C5_ErrorByAstOrder ==
    (pc = "loaded" /\ script.compiles /\ ~loaded.ok) =>
        LET bad == {i \in 1..Len(script.fns) : Broken(script.fns[i]) # {}}
        IN IF bad # {}
           THEN LET i == CHOOSE k \in bad : \A j \in bad : k <= j
                    f == script.fns[i]
                IN /\ loaded.fn = f.name
                   /\ loaded.rule = FirstOf(RuleOrder(f.name), Broken(f))
           ELSE /\ loaded.rule = "missing"
                /\ loaded.fn = FirstOf(RequiredFns, Missing(script))

\* a private install_version(v) beside a missing latest_version: the name of
\* the parameter is what load reported
C5_Witness ==
    /\ pc = "loaded" /\ script.compiles
    /\ script.fns = <<Fn(INSTALL_VERSION_FN, <<"v">>, TRUE)>>
    /\ loaded = EngineError(INSTALL_VERSION_FN, "parameter-name")

----------------------------------------------------------------------------
(* Properties of a run of main *)

Called(fn) == \E i \in 1..Len(calls) : calls[i].fn = fn
CallOf(fn) == calls[CHOOSE i \in 1..Len(calls) : calls[i].fn = fn]

\* both versions and the install location have been obtained from the script
Checked ==
    /\ current_version # None /\ latest_version # None /\ install_path # None

\* C1: in a run without --check where load, current_version, latest_version
\* and install_version all succeed, install(location) is invoked exactly
\* when the parsed current version differs from the parsed latest one, in
\* either direction, and never when they are equal; the location is the one
\* install_version returned
C1_InstallIffVersionsDiffer ==
    /\ (pc = "done" /\ Checked /\ ~args.check) =>
          (Called("install") <=> (Unwrap(current_version) # Unwrap(latest_version)))
    /\ Called("install") =>
          /\ Checked /\ ~args.check
          /\ Unwrap(current_version) # Unwrap(latest_version)
          /\ CallOf("install").arg = CallOf(INSTALL_VERSION_FN).ret.val
    /\ (Checked /\ Unwrap(current_version) = Unwrap(latest_version)) =>
          (op = NoOp /\ net = <<>>)

\* a run went from 1.0.0 to 1.0.0+b, which differ in their build metadata
\* alone, and install has been invoked and has succeeded
C1_Witness ==
    /\ pc = "done" /\ ~args.check /\ exit_code = Some(0)
    /\ Called("install") /\ CallOf("install").ret.kind = "ok"
    /\ CallOf(CURRENT_VERSION_FN).ret.val = V_1_0_0
    /\ CallOf(LATEST_VERSION_FN).ret.val = V_1_0_0_build

\* C2: the orchestrator compares current and latest before asking for a
\* location: install_version is invoked only after the comparison found the
\* versions different, it is never invoked when they are equal, and a
\* failing install_version cannot fail an up-to-date run
C2_CompareBeforeInstallVersion ==
    /\ Called(INSTALL_VERSION_FN) => will_update = Some(TRUE)
    /\ (/\ current_version # None /\ latest_version # None
        /\ Unwrap(current_version) = Unwrap(latest_version))
       => (pc = "done" => ~Called(INSTALL_VERSION_FN))

\* C2 (amended): the orchestrator asks for the location before it compares:
\* install_version is invoked, with the latest version in its string form,
\* on every run where current_version and latest_version succeed, also when
\* the two versions are equal; the comparison is made only after
\* install_version has succeeded, and a failing install_version ends the run
\* with exit status 1 before any comparison, up to date or not
C2_InstallVersionBeforeCompare ==
    /\ Called(INSTALL_VERSION_FN) =>
          /\ current_version # None /\ latest_version # None
          /\ CallOf(INSTALL_VERSION_FN).arg = CallOf(LATEST_VERSION_FN).ret.val
    /\ will_update # None =>
          (Called(INSTALL_VERSION_FN) /\ CallOf(INSTALL_VERSION_FN).ret.kind = "string")
    /\ (Called(INSTALL_VERSION_FN) /\ CallOf(INSTALL_VERSION_FN).ret.kind # "string")
          => (will_update = None /\ pc = "done" /\ exit_code = Some(1))
    /\ (pc = "done" /\ current_version # None /\ latest_version # None)
          => Called(INSTALL_VERSION_FN)

\* a run whose versions are both 1.0.0+b has been ended with exit status 1
\* by its install_version raising an error
C2_Witness ==
    /\ Called(INSTALL_VERSION_FN)
    /\ CallOf(INSTALL_VERSION_FN).arg = V_1_0_0_build
    /\ CallOf(INSTALL_VERSION_FN).ret = ScriptError
    /\ Unwrap(current_version) = Unwrap(latest_version)
    /\ pc = "done" /\ exit_code = Some(1)

\* the call is one of a script step that failed: load, or a script function
\* that raised an error, returned something that is not a string, or
\* returned a version that is not of semantic-version syntax
FailedCall(c) ==
    \/ c.fn = "load" /\ ~c.ret.ok
    \/ /\ c.fn \in {CURRENT_VERSION_FN, LATEST_VERSION_FN, INSTALL_VERSION_FN}
       /\ c.ret.kind # "string"
    \/ /\ c.fn \in {CURRENT_VERSION_FN, LATEST_VERSION_FN}
       /\ c.ret.kind = "string"
       /\ ParseVersion(c.ret.val) = None

ScriptStepFailed == \E i \in 1..Len(calls) : FailedCall(calls[i])

\* C6: script-side failures are terminal and precede any installation: when
\* load, current_version, latest_version or install_version fails, the run
\* ends in an error state, the failed step is its last, install is never
\* invoked, and a version that failed to parse is never made a value that
\* is compared
C6_ScriptFailureIsTerminal ==
    ScriptStepFailed =>
        /\ pc = "done"
        /\ exit_code # None /\ Unwrap(exit_code) # 0
        /\ FailedCall(calls[Len(calls)])
        /\ \A i \in 1..(Len(calls) - 1) : ~FailedCall(calls[i])
        /\ ~Called("install") /\ ~Called("run_after")
        /\ op = NoOp /\ net = <<>>
        /\ will_update = None
        /\ calls[Len(calls)].fn = CURRENT_VERSION_FN => current_version = None
        /\ calls[Len(calls)].fn = LATEST_VERSION_FN => latest_version = None
        /\ calls[Len(calls)].fn = INSTALL_VERSION_FN => install_path = None

\* the run ended on a current version of "01.0.0"
C6_Witness ==
    /\ ScriptStepFailed
    /\ Called(CURRENT_VERSION_FN)
    /\ CallOf(CURRENT_VERSION_FN).ret = Returned(V_leading_zero)
    /\ current_version = None
    /\ pc = "done" /\ exit_code = Some(1)

----------------------------------------------------------------------------
(* Properties of the plain-file install *)

OpDest == ExeDir.comps \o <<OpFileName>>

\* C11: after a successful install of a plain file named F,
\* ExecutableDirectory/F is a regular file holding the content of the
\* source, and what was under that name before, a file or a directory with
\* all its contents, has been removed and not merged with
C11_PlainFileReplaces ==
    (/\ IsInstallOp /\ op.via = "LocalPath" /\ op.ran = "install_simple_file"
     /\ op.res = "ok")
    => /\ FsIsFile(fs, OpDest)
       /\ fs[OpDest].data = op.pre[OpFile].data
       /\ \A q \in DOMAIN fs : IsPrefix(OpDest, q) => q = OpDest
       /\ \A q \in DOMAIN op.pre :
             (IsPrefix(OpDest, q) /\ q # OpDest) => q \notin DOMAIN fs

\* the file t has replaced the directory t and all that was in it
C11_Witness ==
    /\ IsInstallOp /\ op.via = "LocalPath" /\ op.ran = "install_simple_file"
    /\ op.res = "ok" /\ OpFileName = N_t
    /\ FsIsDir(op.pre, OpDest) /\ FsChildren(op.pre, OpDest) # {}
    /\ FsIsFile(fs, OpDest) /\ fs[OpDest].data = Raw("new-t")

----------------------------------------------------------------------------
(* Properties of the download *)

\* the last call was install(url), and it has sent its request
IsDownloadOp ==
    /\ op.name = "install" /\ op.via = "RemoteURL" /\ op.sent
    /\ net # <<>> /\ net[Len(net)].url = op.loc
LastResponse == net[Len(net)].resp

\* everything at and below the absolute directory dir is in g as it is in f
SameBelow(f, g, dir) ==
    \A q \in DOMAIN f \cup DOMAIN g :
        IsPrefix(dir, q) => (q \in DOMAIN f /\ q \in DOMAIN g /\ f[q] = g[q])

\* C12: a status that is not 2xx, received while downloading, makes install
\* fail with an error: the body is not taken for the artifact, nothing is
\* extracted or copied into the executable directory, and the request is not
\* sent again
C12_Non2xxFailsInstall ==
    (/\ IsDownloadOp /\ LastResponse.connect
     /\ LastResponse.status \notin 200..299)
    => /\ op.res = "err"
       /\ op.ran = "none"
       /\ SameBelow(op.pre, fs, ExeDir.comps)
       /\ Len(net) <= nops

----------------------------------------------------------------------------
(* Properties of failures *)

\* writing the entries of the local archive of the last call, as the
\* extractor of its kind writes them, meets a filesystem operation that fails
ExtractionFails ==
    /\ PathIsFile(op.pre, cwd, op.path)
    /\ \/ op.ran = "install_from_zip" /\ op.pre[OpFile].data.fmt = "zip"
       \/ op.ran = "install_from_tar" /\ op.pre[OpFile].data.fmt = "tar"
       \/ op.ran = "install_from_tar_gz" /\ op.pre[OpFile].data.fmt = "targz"
    /\ ~ExtractAll(op.pre, ExtractRoot(ArchiveKind(op.path), cwd), OpEntries).ok

\* C13: a filesystem operation that fails during an install, of whatever
\* archive kind, Zip included, ends the install with an error returned to
\* the caller: install never ends in a panic, and never reports success
\* after such a failure
C13_FailuresAreErrors ==
    (IsInstallOp /\ op.ran # "none") =>
        /\ op.res \in {"ok", "err"}
        /\ (op.via = "LocalPath" /\ ExtractionFails) => op.res = "err"

\* the final segment of the path component of a URL: what lies after the
\* last '/' of the text before the first '?' or '#'
UrlPathSegment(url) ==
    LET cuts == {i \in 1..Len(url) : url[i] \in {"?", "#"}}
        stop == IF cuts = {} THEN Len(url) + 1
                ELSE CHOOSE i \in cuts : \A j \in cuts : i <= j
    IN FilenameFromUrl(SubSeq(url, 1, stop - 1))

\* C14: the local file name of a downloaded artifact is the filename of the
\* Content-Disposition header of the response when the header carries one,
\* and otherwise the final segment of the path component of the URL, and the
\* archive kind is derived from that name: http://h/t.zip?k=1 is stored as
\* t.zip and installed as a Zip
C14_DownloadNameFromHeaderOrUrlPath ==
    (/\ IsDownloadOp /\ LastResponse.connect /\ LastResponse.status = 200
     /\ op.ran # "none") =>
        LET cd == LastResponse.content_disposition
            carried == IF IsSome(cd) THEN ContentDispositionFilename(Unwrap(cd))
                       ELSE None
            name == IF IsSome(carried) THEN Unwrap(carried)
                    ELSE UrlPathSegment(op.loc)
        IN /\ op.path = Join(TempDir, PathFrom(name))
           /\ op.ran = ExtractorOf(ArchiveKind(PathFrom(name)))

----------------------------------------------------------------------------
(* Properties of the flags of main *)

\* C15: with --init the placeholder script is written only if no file is at
\* the script path: a script file that exists keeps its content, and the run
\* always ends after the init step, without resolving versions or installing
C15_InitKeepsExistingScript ==
    (args.init /\ pc = "done") =>
        /\ Called("init") /\ Len(calls) = 1
        /\ CallOf("init").arg.exists => script = CallOf("init").arg
        /\ current_version = None /\ latest_version = None
        /\ install_path = None /\ will_update = None
        /\ op = NoOp /\ net = <<>>

----------------------------------------------------------------------------
(* Properties of unroll_folder on its surroundings *)

\* the absolute path the last unroll_folder was given, its parent directory,
\* and the names of the children the path had when unroll_folder was called
UnrollTarget == Resolve(cwd, op.path)
UnrollParent == FsParent(UnrollTarget)
UnrollChildNames ==
    IF FsIsDir(op.pre, UnrollTarget) THEN FsChildren(op.pre, UnrollTarget) ELSE {}

\* the entries of the parent directory that unroll_folder has no business
\* with: those named neither like the path itself nor like one of its children
Bystanders ==
    {n \in FsChildren(op.pre, UnrollParent) :
        n # UnrollTarget[Len(UnrollTarget)] /\ n \notin UnrollChildNames}

\* C17: unroll_folder(path) leaves every entry of the parent of path whose
\* name differs from the name of path and from the name of every child of
\* path as it was, present with the same content, whether it returns success
\* or fails part-way
C17_UnrollLeavesBystanders ==
    (op.name = "unroll_folder" /\ UnrollTarget # <<>>) =>
        \A n \in Bystanders :
            SameTree(op.pre, Append(UnrollParent, n), fs, Append(UnrollParent, n))

\* unroll_folder has failed after changing the directory of the executable,
\* which held an entry it had no business with
C17_Witness ==
    /\ op.name = "unroll_folder" /\ UnrollTarget # <<>>
    /\ op.res = "err" /\ fs # op.pre
    /\ FsIsDir(op.pre, UnrollTarget)
    /\ Bystanders # {}

----------------------------------------------------------------------------
(* Properties of a plain-file install on its source *)

\* C18: a PlainFile install never destroys its input: for every source path
\* of an existing regular file, a source in the directory of the executable
\* under the name of its destination included, install returns success and
\* the source file is still there afterwards with the content it had
C18_PlainFileKeepsSource ==
    (/\ IsInstallOp /\ op.via = "LocalPath" /\ op.ran = "install_simple_file"
     /\ FsIsFile(op.pre, OpFile))
    => /\ op.res = "ok"
       /\ FsIsFile(fs, OpFile)
       /\ fs[OpFile].data = op.pre[OpFile].data

----------------------------------------------------------------------------
(* Properties of the place of the downloaded file *)

\* what download_archive made of the filesystem the last install(url) found,
\* given the answer the server gave
Downloaded == DownloadArchive(op.pre, op.loc, LastResponse)

\* C19: the downloaded artifact is created as a file directly inside the
\* system temporary directory: whatever filename the Content-Disposition
\* header of the server carries and whatever the URL is, download_archive
\* either fails or returns a path whose parent is the temporary directory,
\* and no file outside the temporary directory is created or truncated
C19_DownloadStaysInTempDir ==
    IsDownloadOp =>
        /\ op.ran # "none" =>
              FsParent(Resolve(<<>>, op.path)) = Resolve(<<>>, TempDir)
        /\ \A q \in DOMAIN op.pre \cup DOMAIN Downloaded.fs :
              ~IsPrefix(Resolve(<<>>, TempDir), q) =>
                  /\ q \in DOMAIN op.pre /\ q \in DOMAIN Downloaded.fs
                  /\ Downloaded.fs[q] = op.pre[q]

====
